---- MODULE Spec2Model ----
(***************************************************************************)
(* Model of trip-trace-conflation/scripts/tds_conflation.py: the regional  *)
(* network cache (nx_map_from_geojson), the worker initializer             *)
(* (init_worker), the per-trace matcher wrapper (process_trace), the batch *)
(* orchestrator (batch_process_traces_parallel, driven by main or called   *)
(* directly), the two link matchers (match_links_from_shapefile,           *)
(* conflate_with_osm) and the table functions (create_batch_traces,        *)
(* concatenate_matched_gdfs, flag_trips_by_osmid).                         *)
(*                                                                         *)
(* Process 0 is the calling process; processes 1..MaxProcs are the pool's  *)
(* worker processes.  Python objects are named by positive integers, None  *)
(* is 0.  A dict is a function from key strings to such integers.          *)
(***************************************************************************)
EXTENDS Integers, Sequences, FiniteSets, TLC

\* ------------------------------------------------------------------ bounds
NumTraces == 2
MaxProcs == 2
NumFeatures == 2

Trips == 1..NumTraces
Workers == 1..MaxProcs
Procs == 0..MaxProcs
None == 0

\* What the libraries do for one trace (the environment's part of the input):
\* a call inside process_trace's try block raises ("err_try", at the step
\* named beside it), the match contains a null road, the table building after
\* the try block raises, or the process handling the trace dies.
Kinds == {"ok", "null_road", "err_try", "err_tables", "crash"}
Steps == {"geofence", "network", "match"}

VARIABLES
    download_local_OSM_map, \* --download_local_OSM_map
    processes,              \* --processes
    caller,                 \* "main": main() runs the batch; "direct": the batch is called directly
    kind,                   \* kind[t]: what the libraries did for trace t, "unknown" before it is handled
    cache_file,             \* local_network_path: "missing", "partial" or "complete"
    pc,                     \* position of the calling process
    npc,                    \* npc[p]: position of process p inside nx_map_from_geojson
    wstate,                 \* wstate[w]: "unstarted", "init", "idle" or "exited"
    process_regional_nx_map,\* the global, per process
    num_trips_matched,      \* the global, per process
    fetches,                \* fetches[p]: how often p asked the external source for a network
    nx_map,                 \* nx_map[p]: the local of nx_map_from_geojson
    nx_calls,               \* nx_calls[p]: how often p has called nx_map_from_geojson
    nx_branch,              \* nx_branch[p]: branch the call of p took: "none", "build", "load"
    nx_after_success,       \* nx_after_success[p]: the call of p began after another had returned
    nx_read,                \* nx_read[p]: state of the file when p read it
    nx_writes,              \* nx_writes[p]: how often p opened the cache file for writing
    broken,                 \* the pool is broken (BrokenProcessPool)
    future,                 \* future[t]
    matched_traces,         \* the local list of batch_process_traces_parallel
    delivered,              \* what the caller of the batch received
    error,                  \* the exception that reached the caller
    features,               \* the rows of the shapefile given to a link matcher
    osm_filter,             \* conflate_with_osm's osm_filter: a set of highway classes, {} if not given
    link_pc,                \* position of the calling process inside a link matcher
    link_i,                 \* match_links_from_shapefile: rows iterated so far
    link_results,           \* match_links_from_shapefile: results, conflate_with_osm: matched
    link_error,             \* the exception that left the link matcher
    co_future,              \* conflate_with_osm: co_future[f], the future of row f
    tab_pc,                 \* which table function is called, and whether it has returned
    df,                     \* create_batch_traces: the location table
    batch_traces,           \* create_batch_traces: the returned list
    match_result,           \* concatenate_matched_gdfs: the list of trace dicts it is given
    matched_gdf,            \* concatenate_matched_gdfs: the returned table
    matched_paths_df,       \* flag_trips_by_osmid: the caller's table
    osmid_set,              \* flag_trips_by_osmid: osmid_set
    flagged_trip_ids        \* flag_trips_by_osmid: the returned list

batchVars == <<download_local_OSM_map, processes, caller, kind, cache_file, pc,
               npc, wstate, process_regional_nx_map, num_trips_matched, fetches, nx_map,
               nx_calls, nx_branch, nx_after_success, nx_read, nx_writes,
               broken, future, matched_traces, delivered, error>>

linkVars == <<features, osm_filter, link_pc, link_i, link_results, link_error,
              co_future>>

tableVars == <<tab_pc, df, batch_traces, match_result, matched_gdf,
               matched_paths_df, osmid_set, flagged_trip_ids>>

vars == <<batchVars, linkVars, tableVars>>

\* ------------------------------------------------------------------- dicts
EmptyDict == [k \in {} |-> 0]
Has(d, k) == k \in DOMAIN d
Put(d, k, v) == [x \in (DOMAIN d) \cup {k} |-> IF x = k THEN v ELSE d[x]]

\* create_batch_traces: the dict of one trace
TraceDict(t) ==
    [k \in {"trip_id", "trace", "trace_gdf", "trace_line_gdf"} |-> t]

\* ----------------------------------------------------------- process_trace
\* The exception raised inside the try block (lines 201-227), "none" if
\* match_trace returns: Geofence.from_trace (203), then NxMap.from_geofence
\* (209) or the truncation of the process's regional network (218-222), whose
\* `.g` is an AttributeError when the global is None, then match_trace (227).
TryError(regional, download, k, step) ==
    IF k = "err_try" /\ step = "geofence" THEN "geofence"
    ELSE IF download /\ k = "err_try" /\ step = "network" THEN "from_geofence"
    ELSE IF ~download /\ regional = None THEN "AttributeError"
    ELSE IF ~download /\ k = "err_try" /\ step = "network" THEN "truncate"
    ELSE IF k = "err_try" /\ step = "match" THEN "match_trace"
    ELSE "none"

\* lines 228-233
ExceptResult(trace_dict) ==
    Put(trace_dict, "unmatched_trips", trace_dict["trip_id"])

\* NullRoadResult with the point table built before the null-road check.
NullRoadResult_tables(trace_dict) ==
    Put(Put(trace_dict, "unmatched_trips", trace_dict["trip_id"]),
        "matched_gdf", trace_dict["trip_id"])

\* lines 246-250
NullRoadResult(trace_dict) ==
    Put(trace_dict, "unmatched_trips", trace_dict["trip_id"])

\* lines 278-281
MatchedResult(trace_dict) ==
    Put(Put(Put(trace_dict, "unmatched_trips", None),
            "matched_gdf", trace_dict["trip_id"]),
        "matched_path_gdf", trace_dict["trip_id"])

\* line 228: `except Exception` catches whatever the try block raised.
TryCatches(exc) == TRUE

\* RoadIdCheck with the loop of lines 242-245 never finding a null road.
RoadIdCheck_true(k) == TRUE

\* lines 241-245: road_id_check, False when some match has no road
RoadIdCheck(k) == k # "null_road"

\* lines 207-209: the number of requests one call makes to the external source:
\* NxMap.from_geofence is called in per-trace mode once the geofence exists.
Fetch(download, k, step) ==
    IF download /\ ~(k = "err_try" /\ step = "geofence") THEN 1 ELSE 0

\* RegionalAfterCall with the truncated map stored in the global.
RegionalAfterCall_truncated(regional) ==
    IF regional = None THEN None ELSE regional + MaxProcs + 1

\* lines 197, 218-224: the global after one call.  process_trace reads
\* process_regional_nx_map.g and keeps the truncated graph and its NxMap in
\* locals; it has no assignment to the global.
RegionalAfterCall(regional) == regional

\* One call of process_trace in a process whose global is `regional`.
\* outcome: "return" (dict is the returned dict), "raise" (exc propagates to
\* the caller) or "crash" (the process dies); counted: the increment of
\* num_trips_matched; fetch: the requests to the external source; regional:
\* the process's global after the call.
ProcessTrace(trace_dict, regional, download, k, step) ==
    LET exc == TryError(regional, download, k, step)
        r == IF exc # "none" /\ TryCatches(exc)
             THEN [outcome |-> "return", dict |-> ExceptResult(trace_dict), counted |-> 0, exc |-> "none"]
             ELSE IF exc # "none"
             THEN [outcome |-> "raise", dict |-> trace_dict, counted |-> 0, exc |-> exc]
             ELSE IF k = "crash"
             THEN [outcome |-> "crash", dict |-> trace_dict, counted |-> 0, exc |-> "none"]
             ELSE IF ~RoadIdCheck(k)
             THEN [outcome |-> "return", dict |-> NullRoadResult(trace_dict), counted |-> 1, exc |-> "none"]
             ELSE IF k = "err_tables"
             THEN [outcome |-> "raise", dict |-> trace_dict, counted |-> 1, exc |-> "tables"]
             ELSE [outcome |-> "return", dict |-> MatchedResult(trace_dict), counted |-> 1, exc |-> "none"]
    IN [outcome |-> r.outcome, dict |-> r.dict, counted |-> r.counted, exc |-> r.exc,
        fetch |-> Fetch(download, k, step), regional |-> RegionalAfterCall(regional)]

\* ------------------------------------------------------- nx_map_from_geojson
\* The batch has neither returned nor raised.
Running == pc \notin {"returned", "raised"}

\* A raise out of nx_map_from_geojson in process p.  In the calling process it
\* propagates out of main (line 804); in a worker the initializer fails, the
\* worker exits and the pool is broken: every unfinished future gets
\* BrokenProcessPool.
BreakFutures(f) ==
    [t \in Trips |-> IF f[t].state = "pending"
                     THEN [f[t] EXCEPT !.state = "exception", !.exc = "BrokenProcessPool"]
                     ELSE f[t]]

NxRaise(p, exc) ==
    /\ npc' = [npc EXCEPT ![p] = "none"]
    /\ IF p = 0
       THEN /\ pc' = "raised"
            /\ error' = exc
            /\ UNCHANGED <<wstate, broken, future>>
       ELSE /\ wstate' = [wstate EXCEPT ![p] = "exited"]
            /\ broken' = TRUE
            /\ future' = BreakFutures(future)
            /\ UNCHANGED <<pc, error>>

\* The return of nx_map_from_geojson (line 69) and the assignment of its value
\* to the global by its caller (main line 804, init_worker line 159).
NxReturn(p, obj) ==
    /\ npc' = [npc EXCEPT ![p] = "none"]
    /\ process_regional_nx_map' = [process_regional_nx_map EXCEPT ![p] = obj]
    /\ IF p = 0
       THEN pc' = "batch" /\ UNCHANGED wstate
       ELSE wstate' = [wstate EXCEPT ![p] = "idle"] /\ UNCHANGED pc
    /\ UNCHANGED <<broken, future, error>>

\* ExistsBranch with the cache ignored: the network is always rebuilt.
ExistsBranch_rebuild(file) == "build"

\* The NxMap object the current call of nx_map_from_geojson in process p
\* creates (lines 61, 66): an object of p's own memory, named by the process and
\* the number of the call.
NewObject(p) == (MaxProcs + 1) * nx_calls[p] + p

\* line 54: the branch taken on local_network_path.exists()
ExistsBranch(file) == IF file = "missing" THEN "build" ELSE "load"

\* line 54, reached by process p: the call's branch is decided by the state of
\* the file at this moment
NxEnter(p) ==
    /\ nx_calls' = [nx_calls EXCEPT ![p] = @ + 1]
    /\ nx_branch' = [nx_branch EXCEPT ![p] = ExistsBranch(cache_file)]
    /\ nx_after_success' = [nx_after_success EXCEPT
                              ![p] = \E q \in Procs : process_regional_nx_map[q] # None]
    /\ npc' = [npc EXCEPT ![p] = IF ExistsBranch(cache_file) = "build"
                                 THEN "construct" ELSE "load"]

\* line 63: the path the network is written to.  to_file is given
\* local_network_path itself, so the file exists, incomplete, from the moment
\* it is opened.
FileWhileWriting == "partial"

\* lines 58-63: the network is built from the external source and to_file
\* opens the cache file
NxConstruct(p) ==
    /\ Running
    /\ npc[p] = "construct"
    /\ nx_map' = [nx_map EXCEPT ![p] = NewObject(p)]
    /\ cache_file' = FileWhileWriting
    /\ nx_writes' = [nx_writes EXCEPT ![p] = @ + 1]
    /\ npc' = [npc EXCEPT ![p] = "writing"]
    /\ fetches' = [fetches EXCEPT ![p] = @ + 1]
    /\ UNCHANGED <<download_local_OSM_map, processes, caller, kind, pc,
                   wstate, process_regional_nx_map, num_trips_matched,
                   nx_calls, nx_branch, nx_after_success, nx_read, broken,
                   future, matched_traces, delivered, error>>

\* lines 58-61: the external source is unreachable, from_geofence raises
NxConstructFails(p) ==
    /\ Running
    /\ npc[p] = "construct"
    /\ NxRaise(p, "NetworkUnavailable")
    /\ fetches' = [fetches EXCEPT ![p] = @ + 1]
    /\ UNCHANGED <<download_local_OSM_map, processes, caller, kind, cache_file,
                   process_regional_nx_map, num_trips_matched, nx_map,
                   nx_calls, nx_branch, nx_after_success, nx_read, nx_writes,
                   matched_traces, delivered>>

\* The file once writer p has closed it: complete unless another writer still
\* has it open.
FileAfterWrite(p) ==
    IF \E q \in Procs \ {p} : npc[q] = "writing" THEN "partial" ELSE "complete"

\* line 63, to_file has written everything and closes; line 69 returns
NxWriteClose(p) ==
    /\ Running
    /\ npc[p] = "writing"
    /\ cache_file' = FileAfterWrite(p)
    /\ NxReturn(p, nx_map[p])
    /\ UNCHANGED <<download_local_OSM_map, processes, caller, kind,
                   num_trips_matched, fetches, nx_map, nx_calls, nx_branch, nx_after_success,
                   nx_read, nx_writes, matched_traces, delivered>>

\* line 66: NxMap.from_file on a complete file; line 69 returns
NxLoad(p) ==
    /\ Running
    /\ npc[p] = "load"
    /\ cache_file = "complete"
    /\ nx_read' = [nx_read EXCEPT ![p] = cache_file]
    /\ nx_map' = [nx_map EXCEPT ![p] = NewObject(p)]
    /\ NxReturn(p, NewObject(p))
    /\ UNCHANGED <<download_local_OSM_map, processes, caller, kind, cache_file,
                   num_trips_matched, fetches, nx_calls, nx_branch, nx_after_success, nx_writes,
                   matched_traces, delivered>>

\* line 66: NxMap.from_file on a file another process is still writing: the
\* text read is a prefix of the serialisation and parsing it raises.
NxLoadPartial(p) ==
    /\ Running
    /\ npc[p] = "load"
    /\ cache_file # "complete"
    /\ nx_read' = [nx_read EXCEPT ![p] = cache_file]
    /\ NxRaise(p, "LoadError")
    /\ UNCHANGED <<download_local_OSM_map, processes, caller, kind, cache_file,
                   process_regional_nx_map, num_trips_matched, fetches, nx_map,
                   nx_calls, nx_branch, nx_after_success, nx_writes,
                   matched_traces, delivered>>

\* ------------------------------------------------------------- init_worker
\* InitWorkerBuilds with the network left to the calling process.
InitWorkerBuilds_never(download) == FALSE

\* InitWorkerBuilds with the test of line 151 dropped.
InitWorkerBuilds_always(download) == TRUE

\* line 151: the initializer builds the process's regional network
InitWorkerBuilds(download) == download = FALSE

\* The pool starts worker w (ProcessPoolExecutor, lines 398-408) and the
\* worker runs init_worker (lines 142-163) up to line 54 of nx_map_from_geojson.
StartWorker(w) ==
    /\ pc \in {"submit", "collect"}
    /\ w <= processes
    /\ wstate[w] = "unstarted"
    /\ \A v \in Workers : v < w => wstate[v] # "unstarted"
    /\ ~broken
    /\ \E t \in Trips : future[t].state # "none"
    /\ IF InitWorkerBuilds(download_local_OSM_map)
       THEN /\ wstate' = [wstate EXCEPT ![w] = "init"]
            /\ NxEnter(w)
       ELSE /\ wstate' = [wstate EXCEPT ![w] = "idle"]
            /\ UNCHANGED <<npc, nx_calls, nx_branch, nx_after_success>>
    /\ UNCHANGED <<download_local_OSM_map, processes, caller, kind, cache_file, pc,
                   process_regional_nx_map, num_trips_matched, fetches, nx_map,
                   nx_read, nx_writes,
                   broken, future, matched_traces, delivered, error>>

\* -------------------------------------------------------------------- main
\* line 799: main builds the calling process's regional network
MainBuilds(n, download) == n = 1 /\ download = FALSE

\* main, lines 798-808, up to line 54 of nx_map_from_geojson
MainSetup ==
    /\ pc = "main"
    /\ IF MainBuilds(processes, download_local_OSM_map)
       THEN pc' = "main_nx" /\ NxEnter(0)
       ELSE pc' = "batch" /\ UNCHANGED <<npc, nx_calls, nx_branch, nx_after_success>>
    /\ UNCHANGED <<download_local_OSM_map, processes, caller, kind, cache_file,
                   wstate, process_regional_nx_map, num_trips_matched, fetches, nx_map,
                   nx_read, nx_writes,
                   broken, future, matched_traces, delivered, error>>

\* ------------------------------------------- batch_process_traces_parallel
\* line 389
BatchEnter ==
    /\ pc = "batch"
    /\ pc' = IF processes = 1 THEN "seq" ELSE "submit"
    /\ UNCHANGED <<download_local_OSM_map, processes, caller, kind, cache_file,
                   npc, wstate, process_regional_nx_map, num_trips_matched, fetches, nx_map,
                   nx_calls, nx_branch, nx_after_success, nx_read, nx_writes,
                   broken, future, matched_traces, delivered, error>>

\* lines 390-393: one element of the list comprehension
SeqProcess ==
    /\ pc = "seq"
    /\ Len(matched_traces) < NumTraces
    /\ \E k \in Kinds, step \in Steps :
       LET t == Len(matched_traces) + 1
           r == ProcessTrace(TraceDict(t), process_regional_nx_map[0],
                             download_local_OSM_map, k, step)
       IN /\ kind' = [kind EXCEPT ![t] = k]
          /\ num_trips_matched' = [num_trips_matched EXCEPT ![0] = @ + r.counted]
          /\ fetches' = [fetches EXCEPT ![0] = @ + r.fetch]
          /\ process_regional_nx_map' = [process_regional_nx_map EXCEPT ![0] = r.regional]
          /\ IF r.outcome = "return"
             THEN /\ matched_traces' = Append(matched_traces, r.dict)
                  /\ UNCHANGED <<pc, error>>
             ELSE /\ pc' = "raised"
                  /\ error' = IF r.outcome = "crash" THEN "ProcessDied" ELSE r.exc
                  /\ UNCHANGED matched_traces
    /\ UNCHANGED <<download_local_OSM_map, processes, caller, cache_file,
                   npc, wstate, nx_map,
                   nx_calls, nx_branch, nx_after_success, nx_read, nx_writes,
                   broken, future, delivered>>

\* lines 410-419: executor.submit of the next trace
IsLast(t) == t = NumTraces

Submit ==
    /\ pc = "submit"
    /\ \E t \in Trips :
         /\ future[t].state = "none"
         /\ \A u \in Trips : u < t => future[u].state # "none"
         /\ IF broken
            THEN /\ pc' = "raised"
                 /\ error' = "BrokenProcessPool"
                 /\ UNCHANGED future
            ELSE /\ future' = [future EXCEPT ![t].state = "pending"]
                 /\ pc' = IF IsLast(t) THEN "collect" ELSE "submit"
                 /\ UNCHANGED error
    /\ UNCHANGED <<download_local_OSM_map, processes, caller, kind, cache_file,
                   npc, wstate, process_regional_nx_map, num_trips_matched, fetches, nx_map,
                   nx_calls, nx_branch, nx_after_success, nx_read, nx_writes,
                   broken, matched_traces, delivered>>

\* An idle worker takes the oldest queued work item and runs process_trace on
\* its copy of the trace dict (line 412).
WorkerRun(w) ==
    /\ pc \in {"submit", "collect"}
    /\ w <= processes
    /\ wstate[w] = "idle"
    /\ \E t \in Trips, k \in Kinds, step \in Steps :
         /\ future[t].state = "pending"
         /\ \A u \in Trips : u < t => future[u].state # "pending"
         /\ LET r == ProcessTrace(TraceDict(t), process_regional_nx_map[w],
                                  download_local_OSM_map, k, step)
            IN /\ kind' = [kind EXCEPT ![t] = k]
               /\ num_trips_matched' = [num_trips_matched EXCEPT ![w] = @ + r.counted]
               /\ fetches' = [fetches EXCEPT ![w] = @ + r.fetch]
               /\ process_regional_nx_map' = [process_regional_nx_map EXCEPT ![w] = r.regional]
               /\ IF r.outcome = "return"
                  THEN /\ future' = [future EXCEPT ![t] =
                              [@ EXCEPT !.state = "result", !.worker = w, !.result = r.dict]]
                       /\ UNCHANGED <<wstate, broken>>
                  ELSE IF r.outcome = "raise"
                  THEN /\ future' = [future EXCEPT ![t] =
                              [@ EXCEPT !.state = "exception", !.worker = w, !.exc = r.exc]]
                       /\ UNCHANGED <<wstate, broken>>
                  ELSE /\ future' = BreakFutures([future EXCEPT ![t].worker = w])
                       /\ wstate' = [wstate EXCEPT ![w] = "exited"]
                       /\ broken' = TRUE
    /\ UNCHANGED <<download_local_OSM_map, processes, caller, cache_file, pc,
                   npc, nx_map,
                   nx_calls, nx_branch, nx_after_success, nx_read, nx_writes,
                   matched_traces, delivered, error>>

\* lines 421-424: as_completed yields a finished future, future.result() either
\* returns the worker's dict, which is appended, or raises the future's exception
Collect ==
    /\ pc = "collect"
    /\ \E t \in Trips :
         /\ future[t].state \in {"result", "exception"}
         /\ ~future[t].collected
         /\ future' = [future EXCEPT ![t].collected = TRUE]
         /\ IF future[t].state = "result"
            THEN /\ matched_traces' = Append(matched_traces, future[t].result)
                 /\ UNCHANGED <<pc, error>>
            ELSE /\ pc' = "raised"
                 /\ error' = future[t].exc
                 /\ UNCHANGED matched_traces
    /\ UNCHANGED <<download_local_OSM_map, processes, caller, kind, cache_file,
                   npc, wstate, process_regional_nx_map, num_trips_matched, fetches, nx_map,
                   nx_calls, nx_branch, nx_after_success, nx_read, nx_writes,
                   broken, delivered>>

\* line 426
BatchReturn ==
    /\ pc \in {"seq", "collect"}
    /\ Len(matched_traces) = NumTraces
    /\ pc' = "returned"
    /\ delivered' = matched_traces
    /\ UNCHANGED <<download_local_OSM_map, processes, caller, kind, cache_file,
                   npc, wstate, process_regional_nx_map, num_trips_matched, fetches, nx_map,
                   nx_calls, nx_branch, nx_after_success, nx_read, nx_writes,
                   broken, future, matched_traces, error>>

\* ------------------------------------------------------------ geometries
\* A geometry is a finite set of grid points, the null geometry is {}.
NullGeom == {}
Min(S) == CHOOSE x \in S : \A y \in S : x <= y
Max(S) == CHOOSE x \in S : \A y \in S : x >= y

\* geometry.bounds: <<minx, miny, maxx, maxy>>
Bounds(g) ==
    <<Min({q[1] : q \in g}), Min({q[2] : q \in g}),
      Max({q[1] : q \in g}), Max({q[2] : q \in g})>>

\* two bounding boxes intersect
BoxesIntersect(a, b) ==
    a[1] <= b[3] /\ b[1] <= a[3] /\ a[2] <= b[4] /\ b[2] <= a[4]

\* geometry.distance, squared
Distance2(g, h) ==
    Min({(q[1] - r[1]) * (q[1] - r[1]) + (q[2] - r[2]) * (q[2] - r[2]) :
            q \in g, r \in h})

\* The drive network ox.graph_from_polygon returns for the hull of the rows
\* (line 676), as the rows of its edge table.
OsmEdges ==
    << [osmid |-> 11, highway |-> "motorway",    geometry |-> {<<0, 0>>, <<1, 0>>, <<2, 0>>}],
       [osmid |-> 12, highway |-> "motorway",    geometry |-> {<<0, 3>>, <<1, 3>>, <<2, 3>>}],
       [osmid |-> 13, highway |-> "residential", geometry |-> {<<1, 0>>, <<1, 1>>, <<1, 2>>}] >>

\* The geometries a row of the shapefile can have: a line on edge 11, a line
\* one unit beside edge 12, a line crossing the edges 11 and 13, a line far from
\* every edge, a point, null.
FeatureGeoms ==
    { {<<0, 0>>, <<1, 0>>},
      {<<0, 4>>, <<1, 4>>, <<2, 4>>},
      {<<0, 1>>, <<1, 1>>, <<2, 1>>, <<2, 0>>},
      {<<8, 8>>, <<9, 8>>},
      {<<1, 0>>},
      NullGeom }

\* geometry.geom_type of a geometry that is not null
GeomType(g) == IF Cardinality(g) = 1 THEN "Point" ELSE "LineString"

FeatureIds == 1..NumFeatures

\* the rows of q whose highway is one of `allowed`, in order
RECURSIVE FilterSeq(_, _)
FilterSeq(q, allowed) ==
    IF q = <<>> THEN <<>>
    ELSE IF Head(q).highway \in allowed
         THEN <<Head(q)>> \o FilterSeq(Tail(q), allowed)
         ELSE FilterSeq(Tail(q), allowed)

\* lines 677-680: the edge table, filtered when osm_filter is given
FilteredEdges(filter) ==
    IF filter # {} THEN FilterSeq(OsmEdges, filter) ELSE OsmEdges

\* CandidateIdxs with the spatial index returning every edge.
CandidateIdxs_all(line, edges_df) == 1..Len(edges_df)

\* line 646: the positions of the edges whose box intersects the line's
CandidateIdxs(line, edges_df) ==
    {i \in 1..Len(edges_df) : BoxesIntersect(Bounds(edges_df[i].geometry), Bounds(line))}

\* line 652: idxmin, the first of the candidates at the least distance
NearestIdx(line, edges_df, candidate_idxs) ==
    Min({i \in candidate_idxs :
            \A j \in candidate_idxs :
                Distance2(edges_df[i].geometry, line) <= Distance2(edges_df[j].geometry, line)})

\* _match_line_to_osm, lines 645-653.  kind "dict": the nearest candidate's
\* row as a dict; "None": no candidate; "raise": line.bounds of a null geometry.
MatchLineToOsm(line, edges_df) ==
    IF line = NullGeom
    THEN [kind |-> "raise", row |-> EmptyDict]
    ELSE IF CandidateIdxs(line, edges_df) = {}
    THEN [kind |-> "None", row |-> EmptyDict]
    ELSE LET e == edges_df[NearestIdx(line, edges_df, CandidateIdxs(line, edges_df))]
         IN [kind |-> "dict", row |-> e]

\* -------------------------------------------------- match_links_from_shapefile
\* lines 330-335: the dict of one row
FeatureTraceDict(f) ==
    [k \in {"trip_id", "trace", "trace_gdf", "trace_line_gdf"} |-> f]

\* lines 318-347: one iteration of the loop over the rows
MlRow ==
    /\ link_pc = "ml_loop"
    /\ link_i < Len(features)
    /\ link_i' = link_i + 1
    /\ LET f == link_i + 1 IN
       IF features[f].geometry = NullGeom
       THEN /\ link_pc' = "ml_raised"
            /\ link_error' = "AttributeError"
            /\ UNCHANGED <<link_results, num_trips_matched, fetches,
                           process_regional_nx_map>>
       ELSE IF GeomType(features[f].geometry) # "LineString"
       THEN UNCHANGED <<link_pc, link_results, link_error, num_trips_matched,
                        fetches, process_regional_nx_map>>
       ELSE \E k \in Kinds, step \in Steps :
            LET r == ProcessTrace(FeatureTraceDict(f), process_regional_nx_map[0],
                                  download_local_OSM_map, k, step)
            IN /\ num_trips_matched' = [num_trips_matched EXCEPT ![0] = @ + r.counted]
               /\ fetches' = [fetches EXCEPT ![0] = @ + r.fetch]
               /\ process_regional_nx_map' = [process_regional_nx_map EXCEPT ![0] = r.regional]
               /\ IF r.outcome = "return" /\ Has(r.dict, "matched_path_gdf")
                  THEN /\ link_results' = Append(link_results,
                                                 Put(EmptyDict, "original_id", f))
                       /\ UNCHANGED <<link_pc, link_error>>
                  ELSE /\ link_pc' = "ml_raised"
                       /\ link_error' = IF r.outcome = "return" THEN "KeyError"
                                        ELSE IF r.outcome = "raise" THEN r.exc
                                        ELSE "ProcessDied"
                       /\ UNCHANGED link_results
    /\ UNCHANGED <<download_local_OSM_map, processes, caller, kind, cache_file, pc,
                   npc, wstate, nx_map,
                   nx_calls, nx_branch, nx_after_success, nx_read, nx_writes,
                   broken, future, matched_traces, delivered, error,
                   features, osm_filter, co_future>>

\* line 349
MlReturn ==
    /\ link_pc = "ml_loop"
    /\ link_i = Len(features)
    /\ link_pc' = "ml_returned"
    /\ UNCHANGED <<batchVars, features, osm_filter, link_i, link_results, link_error,
                   co_future>>

\* ----------------------------------------------------------- conflate_with_osm
\* lines 670-690: the network is fetched, filtered and indexed and one task per
\* row is submitted
CoSetup ==
    /\ link_pc = "co_start"
    /\ link_pc' = "co_collect"
    /\ co_future' = [f \in 1..Len(features) |->
                        [state |-> "pending", row |-> EmptyDict, collected |-> FALSE]]
    /\ UNCHANGED <<batchVars, features, osm_filter, link_i, link_results, link_error>>

\* line 676: the external source is unreachable
CoSetupFails ==
    /\ link_pc = "co_start"
    /\ link_pc' = "co_raised"
    /\ link_error' = "NetworkUnavailable"
    /\ UNCHANGED <<batchVars, features, osm_filter, link_i, link_results, co_future>>

\* a worker of the pool runs the task of row f
CoTask(f) ==
    /\ link_pc = "co_collect"
    /\ f \in DOMAIN co_future
    /\ co_future[f].state = "pending"
    /\ LET r == MatchLineToOsm(features[f].geometry, FilteredEdges(osm_filter))
       IN co_future' = [co_future EXCEPT ![f] =
              [@ EXCEPT !.state = IF r.kind = "raise" THEN "exception" ELSE r.kind,
                        !.row = r.row]]
    /\ UNCHANGED <<batchVars, features, osm_filter, link_pc, link_i, link_results,
                   link_error>>

\* lines 692-695: as_completed yields the future of row f
CoCollect(f) ==
    /\ link_pc = "co_collect"
    /\ f \in DOMAIN co_future
    /\ co_future[f].state \in {"dict", "None", "exception"}
    /\ ~co_future[f].collected
    /\ co_future' = [co_future EXCEPT ![f].collected = TRUE]
    /\ IF co_future[f].state = "exception"
       THEN /\ link_pc' = "co_raised"
            /\ link_error' = "AttributeError"
            /\ UNCHANGED link_results
       ELSE /\ link_results' = IF co_future[f].state = "dict"
                               THEN Append(link_results, co_future[f].row)
                               ELSE link_results
            /\ UNCHANGED <<link_pc, link_error>>
    /\ UNCHANGED <<batchVars, features, osm_filter, link_i>>

\* lines 697-706
CoReturn ==
    /\ link_pc = "co_collect"
    /\ \A f \in DOMAIN co_future : co_future[f].collected
    /\ link_pc' = "co_returned"
    /\ UNCHANGED <<batchVars, features, osm_filter, link_i, link_results, link_error,
                   co_future>>

\* ------------------------------------------------------------------ tables
MaxRows == 2
MaxPoints == 3

\* the first occurrences of the members of q, in order (Series.unique)
RECURSIVE Unique(_)
Unique(q) ==
    IF q = <<>> THEN <<>>
    ELSE LET u == Unique(SubSeq(q, 1, Len(q) - 1))
             last == q[Len(q)]
         IN IF \E i \in 1..Len(u) : u[i] = last THEN u ELSE Append(u, last)

\* the sequences of distinct members of S
DistinctSeqs(S) ==
    {l \in UNION {[1..n -> S] : n \in 0..Cardinality(S)} :
        \A i, j \in DOMAIN l : i # j => l[i] # l[j]}

\* the tables of at most n rows drawn from Rows
TablesOf(Rows, n) == UNION {[1..m -> Rows] : m \in 0..n}

\* ------------------------------------------------------- create_batch_traces
\* the rows of the location table: a point of a trip with its collect_time
Times == 1..MaxPoints
LocationRows == [trip_id : Trips, collect_time : Times]

\* line 93
UniqueIds(table) == Unique([i \in 1..Len(table) |-> table[i].trip_id])

\* line 96: the rows of trip i, in the order of the table
FilterDf(table, i) == SelectSeq(table, LAMBDA r : r.trip_id = i)

\* lines 94-123: one dict per unique id; the trace, its line and its point table
\* follow the rows of filter_df
CreateBatchTraces(table) ==
    LET unique_ids == UniqueIds(table)
    IN [n \in 1..Len(unique_ids) |->
          LET filter_df == FilterDf(table, unique_ids[n])
          IN [trip_id |-> unique_ids[n],
              trace |-> [j \in 1..Len(filter_df) |-> filter_df[j].collect_time],
              trace_gdf |-> filter_df]]

\* line 818
CreateBatch ==
    /\ tab_pc = "create"
    /\ batch_traces' = CreateBatchTraces(df)
    /\ tab_pc' = "create_done"
    /\ UNCHANGED <<batchVars, linkVars, df, match_result, matched_gdf,
                   matched_paths_df, osmid_set, flagged_trip_ids>>

\* -------------------------------------------------- concatenate_matched_gdfs
\* an osmid entry of a table is a scalar, [scalar |-> v], or a list,
\* [list |-> l]; str(x) of an entry x is [str |-> x]
IsListLike(x) == "list" \in DOMAIN x

\* the table kind that is concatenated
MatchType == "matched_gdf"

\* WithRownum with the sequence numbers counted from one.
WithRownum_from1(table) ==
    [i \in 1..Len(table) |->
        [trip_id |-> table[i].trip_id, osmid |-> table[i].osmid, rownum |-> i]]

\* line 449: the column rownum, range(len(table)), is added to the table
WithRownum(table) ==
    [i \in 1..Len(table) |->
        [trip_id |-> table[i].trip_id, osmid |-> table[i].osmid, rownum |-> i - 1]]

\* lines 442-450, 458: the tables of the dicts that have the key, one after
\* the other in the order of the list
RECURSIVE ConcatTables(_, _)
ConcatTables(dicts, match_type) ==
    IF dicts = <<>> THEN <<>>
    ELSE IF ~Has(Head(dicts), match_type)
         THEN ConcatTables(Tail(dicts), match_type)
         ELSE WithRownum(Head(dicts)[match_type]) \o ConcatTables(Tail(dicts), match_type)

\* lines 463-475: when a value of the osmid column is a list, every list and
\* every int of the column becomes its string
Stringify(table) ==
    IF \E i \in 1..Len(table) : IsListLike(table[i].osmid)
    THEN [i \in 1..Len(table) |-> [table[i] EXCEPT !.osmid = [str |-> @]]]
    ELSE table

ConcatenateMatchedGdfs(dicts, match_type) ==
    Stringify(ConcatTables(dicts, match_type))

\* line 449 assigns the column on the dict's own table
DictsAfterConcat(dicts, match_type) ==
    [i \in 1..Len(dicts) |->
        IF Has(dicts[i], match_type)
        THEN Put(dicts[i], match_type, WithRownum(dicts[i][match_type]))
        ELSE dicts[i]]

\* lines 486-489: one call
Concatenate ==
    /\ tab_pc = "concat"
    /\ matched_gdf' = ConcatenateMatchedGdfs(match_result, MatchType)
    /\ match_result' = DictsAfterConcat(match_result, MatchType)
    /\ tab_pc' = "concat_done"
    /\ UNCHANGED <<batchVars, linkVars, df, batch_traces,
                   matched_paths_df, osmid_set, flagged_trip_ids>>

\* ------------------------------------------------------- flag_trips_by_osmid
\* DataFrame.explode puts NaN where the list is empty
NaN == -1

\* AsList with only the first member of a list kept.
AsList_first(x) ==
    IF IsListLike(x)
    THEN IF x.list = <<>> THEN <<>> ELSE <<x.list[1]>>
    ELSE <<x.scalar>>

\* line 633: the lambda: a list stays, a scalar becomes a list of one
AsList(x) == IF IsListLike(x) THEN x.list ELSE <<x.scalar>>

\* line 635: the rows one row becomes when its osmid list l is exploded
ExplodeRow(trip_id, l) ==
    IF l = <<>>
    THEN <<[trip_id |-> trip_id, osmid |-> NaN]>>
    ELSE [i \in 1..Len(l) |-> [trip_id |-> trip_id, osmid |-> l[i]]]

\* lines 633-635
RECURSIVE Explode(_)
Explode(table) ==
    IF table = <<>> THEN <<>>
    ELSE ExplodeRow(Head(table).trip_id, AsList(Head(table).osmid))
             \o Explode(Tail(table))

\* lines 632-638
FlagTripsByOsmid(table, set) ==
    LET exploded == Explode(table)
        hits == SelectSeq(exploded, LAMBDA r : r.osmid \in set)
    IN Unique([i \in 1..Len(hits) |-> hits[i].trip_id])

\* line 632: the function works on a copy, the caller's table stays
CallerTableAfterFlag(table) == table

\* line 886
FlagTrips ==
    /\ tab_pc = "flag"
    /\ flagged_trip_ids' = FlagTripsByOsmid(matched_paths_df, osmid_set)
    /\ matched_paths_df' = CallerTableAfterFlag(matched_paths_df)
    /\ tab_pc' = "flag_done"
    /\ UNCHANGED <<batchVars, linkVars, df, batch_traces, match_result,
                   matched_gdf, osmid_set>>

\* ------------------------------------------------------------ specification
\* no table function is being called
TablesIdle ==
    /\ tab_pc = "none"
    /\ df = <<>>
    /\ batch_traces = <<>>
    /\ match_result = <<>>
    /\ matched_gdf = <<>>
    /\ matched_paths_df = <<>>
    /\ osmid_set = {}
    /\ flagged_trip_ids = <<>>

NoFuture == [state |-> "none", worker |-> 0, result |-> EmptyDict,
             exc |-> "none", collected |-> FALSE]

Init ==
    /\ download_local_OSM_map \in BOOLEAN
    /\ processes \in 1..MaxProcs
    /\ caller \in {"main", "direct"}
    /\ kind = [t \in Trips |-> "unknown"]
    /\ cache_file \in {"missing", "complete"}
    /\ pc = IF caller = "main" THEN "main" ELSE "batch"
    /\ npc = [p \in Procs |-> "none"]
    /\ wstate = [w \in Workers |-> "unstarted"]
    /\ process_regional_nx_map = [p \in Procs |-> None]
    /\ num_trips_matched = [p \in Procs |-> 0]
    /\ fetches = [p \in Procs |-> 0]
    /\ nx_map = [p \in Procs |-> None]
    /\ nx_calls = [p \in Procs |-> 0]
    /\ nx_branch = [p \in Procs |-> "none"]
    /\ nx_after_success = [p \in Procs |-> FALSE]
    /\ nx_read = [p \in Procs |-> "none"]
    /\ nx_writes = [p \in Procs |-> 0]
    /\ broken = FALSE
    /\ future = [t \in Trips |-> NoFuture]
    /\ matched_traces = <<>>
    /\ delivered = <<>>
    /\ error = "none"
    /\ features = <<>>
    /\ osm_filter = {}
    /\ link_pc = "none"
    /\ link_i = 0
    /\ link_results = <<>>
    /\ link_error = "none"
    /\ co_future = <<>>
    /\ TablesIdle

Next ==
    \/ (MainSetup /\ UNCHANGED <<linkVars, tableVars>>)
    \/ (BatchEnter /\ UNCHANGED <<linkVars, tableVars>>)
    \/ (SeqProcess /\ UNCHANGED <<linkVars, tableVars>>)
    \/ (Submit /\ UNCHANGED <<linkVars, tableVars>>)
    \/ (Collect /\ UNCHANGED <<linkVars, tableVars>>)
    \/ (BatchReturn /\ UNCHANGED <<linkVars, tableVars>>)
    \/ (\E w \in Workers : StartWorker(w) /\ UNCHANGED <<linkVars, tableVars>>)
    \/ (\E w \in Workers : WorkerRun(w) /\ UNCHANGED <<linkVars, tableVars>>)
    \/ (\E p \in Procs : NxConstruct(p) /\ UNCHANGED <<linkVars, tableVars>>)
    \/ (\E p \in Procs : NxConstructFails(p) /\ UNCHANGED <<linkVars, tableVars>>)
    \/ (\E p \in Procs : NxWriteClose(p) /\ UNCHANGED <<linkVars, tableVars>>)
    \/ (\E p \in Procs : NxLoad(p) /\ UNCHANGED <<linkVars, tableVars>>)
    \/ (\E p \in Procs : NxLoadPartial(p) /\ UNCHANGED <<linkVars, tableVars>>)

Spec == Init /\ [][Next]_vars

\* The link matchers, called on a shapefile in a process whose regional network
\* main has built or nobody has.
LinkInit ==
    /\ download_local_OSM_map \in BOOLEAN
    /\ processes = 1
    /\ caller = "direct"
    /\ kind = [t \in Trips |-> "unknown"]
    /\ cache_file = "complete"
    /\ pc = "link"
    /\ npc = [p \in Procs |-> "none"]
    /\ wstate = [w \in Workers |-> "unstarted"]
    /\ \E m \in {None, 1} :
          process_regional_nx_map = [p \in Procs |-> IF p = 0 THEN m ELSE None]
    /\ num_trips_matched = [p \in Procs |-> 0]
    /\ fetches = [p \in Procs |-> 0]
    /\ nx_map = [p \in Procs |-> None]
    /\ nx_calls = [p \in Procs |-> 0]
    /\ nx_branch = [p \in Procs |-> "none"]
    /\ nx_after_success = [p \in Procs |-> FALSE]
    /\ nx_read = [p \in Procs |-> "none"]
    /\ nx_writes = [p \in Procs |-> 0]
    /\ broken = FALSE
    /\ future = [t \in Trips |-> NoFuture]
    /\ matched_traces = <<>>
    /\ delivered = <<>>
    /\ error = "none"
    /\ features \in [FeatureIds -> [geometry : FeatureGeoms]]
    /\ osm_filter \in {{}, {"motorway"}}
    /\ link_pc \in {"ml_loop", "co_start"}
    /\ link_i = 0
    /\ link_results = <<>>
    /\ link_error = "none"
    /\ co_future = <<>>
    /\ TablesIdle

LinkNext ==
    \/ (MlRow /\ UNCHANGED tableVars)
    \/ (MlReturn /\ UNCHANGED tableVars)
    \/ (CoSetup /\ UNCHANGED tableVars)
    \/ (CoSetupFails /\ UNCHANGED tableVars)
    \/ (\E f \in FeatureIds : CoTask(f) /\ UNCHANGED tableVars)
    \/ (\E f \in FeatureIds : CoCollect(f) /\ UNCHANGED tableVars)
    \/ (CoReturn /\ UNCHANGED tableVars)

SpecLink == LinkInit /\ [][LinkNext]_vars

\* the osmid entries of a path table: an edge id or a list of distinct edge ids
PathOsmids == {OsmEdges[1].osmid, OsmEdges[2].osmid}
OsmidEntries ==
    {[scalar |-> v] : v \in PathOsmids} \cup {[list |-> l] : l \in DistinctSeqs(PathOsmids)}

\* the osmid entries of the tables given to concatenate_matched_gdfs
ConcatEntries ==
    {[scalar |-> OsmEdges[1].osmid], [list |-> <<OsmEdges[1].osmid, OsmEdges[2].osmid>>]}

\* the dicts process_trace can have returned for trip t: without the table or
\* with a table whose rows carry the trip id (lines 254, 280)
ResultDicts(t) ==
    {[k \in {"trip_id"} |-> t]}
        \cup {[k \in {"trip_id", MatchType} |-> IF k = "trip_id" THEN t ELSE table] :
                table \in TablesOf([trip_id : {t}, osmid : ConcatEntries], MaxRows)}

\* The table functions, each called once on an input it can be given:
\* create_batch_traces on a location table whose rows are in file order,
\* concatenate_matched_gdfs on the results of the trips in an order of
\* arrival, flag_trips_by_osmid on a path table and a set of edge ids.
TablesInit ==
    /\ download_local_OSM_map = FALSE
    /\ processes = 1
    /\ caller = "direct"
    /\ kind = [t \in Trips |-> "unknown"]
    /\ cache_file = "complete"
    /\ pc = "tables"
    /\ npc = [p \in Procs |-> "none"]
    /\ wstate = [w \in Workers |-> "unstarted"]
    /\ process_regional_nx_map = [p \in Procs |-> None]
    /\ num_trips_matched = [p \in Procs |-> 0]
    /\ fetches = [p \in Procs |-> 0]
    /\ nx_map = [p \in Procs |-> None]
    /\ nx_calls = [p \in Procs |-> 0]
    /\ nx_branch = [p \in Procs |-> "none"]
    /\ nx_after_success = [p \in Procs |-> FALSE]
    /\ nx_read = [p \in Procs |-> "none"]
    /\ nx_writes = [p \in Procs |-> 0]
    /\ broken = FALSE
    /\ future = [t \in Trips |-> NoFuture]
    /\ matched_traces = <<>>
    /\ delivered = <<>>
    /\ error = "none"
    /\ features = <<>>
    /\ osm_filter = {}
    /\ link_pc = "none"
    /\ link_i = 0
    /\ link_results = <<>>
    /\ link_error = "none"
    /\ co_future = <<>>
    /\ batch_traces = <<>>
    /\ matched_gdf = <<>>
    /\ flagged_trip_ids = <<>>
    /\ \/ /\ tab_pc = "create"
          /\ df \in TablesOf(LocationRows, MaxPoints)
          /\ match_result = <<>>
          /\ matched_paths_df = <<>>
          /\ osmid_set = {}
       \/ /\ tab_pc = "concat"
          /\ df = <<>>
          /\ match_result \in
                {q \in [Trips -> UNION {ResultDicts(t) : t \in Trips}] :
                    \A i, j \in Trips : i # j => q[i]["trip_id"] # q[j]["trip_id"]}
          /\ matched_paths_df = <<>>
          /\ osmid_set = {}
       \/ /\ tab_pc = "flag"
          /\ df = <<>>
          /\ match_result = <<>>
          /\ matched_paths_df \in TablesOf([trip_id : Trips, osmid : OsmidEntries], MaxRows)
          /\ osmid_set \in SUBSET {OsmEdges[2].osmid, OsmEdges[3].osmid}

TablesNext ==
    \/ CreateBatch
    \/ Concatenate
    \/ FlagTrips

SpecTables == TablesInit /\ [][TablesNext]_vars

\* ------------------------------------------------------------------ claims
Range(q) == {q[i] : i \in 1..Len(q)}
IsMatched(d) == Has(d, "unmatched_trips") /\ d["unmatched_trips"] = None
IsUnmatched(d) == Has(d, "unmatched_trips") /\ d["unmatched_trips"] = d["trip_id"]
MatchedIds(q) == {d["trip_id"] : d \in {x \in Range(q) : IsMatched(x)}}
UnmatchedIds(q) == {d["trip_id"] : d \in {x \in Range(q) : IsUnmatched(x)}}

\* every result dict a call of process_trace has returned so far
AllResults ==
    Range(matched_traces) \cup Range(delivered)
        \cup {future[t].result : t \in {u \in Trips : future[u].state = "result"}}

\* the exceptions a call of process_trace can raise
ProcessTraceErrors ==
    {"geofence", "from_geofence", "AttributeError", "truncate", "match_trace", "tables"}

\* C1: full accounting.  Whenever the batch returns, the returned list holds
\* exactly one result per submitted trace, each matched or explicitly
\* unmatched, and a run always reaches that return: with the setup done and no
\* process dying, the batch never ends by raising.
C1_FullAccounting ==
    /\ pc = "raised" =>
          error \in {"ProcessDied", "BrokenProcessPool", "NetworkUnavailable", "LoadError"}
    /\ pc = "returned" =>
          /\ Len(delivered) = NumTraces
          /\ \A t \in Trips :
                Cardinality({i \in 1..Len(delivered) : delivered[i]["trip_id"] = t}) = 1
          /\ \A i \in 1..Len(delivered) :
                IsMatched(delivered[i]) \/ IsUnmatched(delivered[i])

\* C2: error-to-unmatched conversion.  No call of process_trace lets an
\* exception propagate: no future holds an exception raised by process_trace
\* and none reaches the caller of the sequential loop.
C2_NoExceptionEscapes ==
    /\ \A t \in Trips : future[t].state = "exception" => future[t].exc \notin ProcessTraceErrors
    /\ error \notin ProcessTraceErrors

\* C3: with more than one worker, when a worker dies or a future raises, the
\* results of the traces that had completed are in what the batch delivers.
C3_CompletedResultsSurvive ==
    (/\ processes > 1
     /\ pc \in {"returned", "raised"}
     /\ \E u \in Trips : future[u].state = "exception")
    => \A t \in Trips : future[t].state = "result" => future[t].result \in Range(delivered)

\* The calling process's regional network in a sequential run started by main.
SeqRegional(download) == IF MainBuilds(1, download) THEN 1 ELSE None

\* The trips a sequential run started by main returns as matched.
SeqMatchedIds ==
    {t \in Trips : \A st \in Steps :
        IsMatched(ProcessTrace(TraceDict(t), SeqRegional(download_local_OSM_map),
                               download_local_OSM_map, kind[t], st).dict)}

MatchedShape(d) ==
    IsMatched(d) /\ Has(d, "matched_gdf") /\ Has(d, "matched_path_gdf")
UnmatchedShape(d) ==
    IsUnmatched(d) /\ ~Has(d, "matched_gdf") /\ ~Has(d, "matched_path_gdf")

\* C5: result variant exclusivity.  Every dict process_trace returned is
\* matched with both tables or unmatched with neither.
C5_ResultVariantExclusive ==
    \A d \in AllResults : MatchedShape(d) \/ UnmatchedShape(d)

\* C5's case: process_trace has returned a matched and an unmatched result, the
\* latter for a null road.
C5_Witness ==
    /\ \E d \in AllResults : MatchedShape(d)
    /\ \E d \in AllResults : UnmatchedShape(d) /\ kind[d["trip_id"]] = "null_road"

\* C7: setup failures are fatal.  In shared-regional mode the batch does not
\* return when a process that handled traces had no regional network.
C7_SetupFailureIsFatal ==
    (pc = "returned" /\ ~download_local_OSM_map) =>
        /\ processes = 1 => process_regional_nx_map[0] # None
        /\ \A t \in Trips : future[t].worker # 0 =>
              process_regional_nx_map[future[t].worker] # None

\* C8: in shared-regional mode with several workers every worker calls
\* nx_map_from_geojson at most once, has done so and holds its network before
\* it handles a trace, no two workers hold the same network object, and in
\* per-trace mode no worker calls it at all.
C8_OneNetworkPerWorker ==
    processes > 1 =>
        /\ \A w \in Workers : nx_calls[w] <= 1
        /\ download_local_OSM_map =>
              \A w \in Workers : nx_calls[w] = 0 /\ process_regional_nx_map[w] = None
        /\ ~download_local_OSM_map =>
              \A t \in Trips : future[t].worker # 0 =>
                  /\ nx_calls[future[t].worker] = 1
                  /\ process_regional_nx_map[future[t].worker] # None
        /\ \A v, w \in Workers :
              (v # w /\ process_regional_nx_map[v] # None) =>
                  process_regional_nx_map[v] # process_regional_nx_map[w]

\* C8's case: two workers, each with its own network, each handled a trace.
C8_Witness ==
    /\ processes > 1 /\ ~download_local_OSM_map
    /\ \E t, u \in Trips :
          /\ future[t].worker # 0 /\ future[u].worker # 0
          /\ future[t].worker # future[u].worker
          /\ future[t].state = "result" /\ future[u].state = "result"

\* C9: atomic cache publication.  No process loads the cache file while it is
\* partially written.
C9_NoPartialCacheRead ==
    \A p \in Procs : nx_read[p] # "partial"

\* C10: obtain_network.  A call that finds the file loads it and neither
\* constructs nor writes; a call that does not find it constructs, writes once
\* and returns what it constructed; once a call has returned the file exists,
\* and a call begun after that takes the load branch.
C10_ObtainNetwork ==
    /\ \A p \in Procs :
          /\ nx_branch[p] = "load" =>
                nx_writes[p] = 0 /\ npc[p] \notin {"construct", "writing"}
          /\ (nx_branch[p] = "load" /\ process_regional_nx_map[p] # None) =>
                nx_read[p] = "complete"
          /\ (nx_branch[p] = "build" /\ process_regional_nx_map[p] # None) =>
                /\ nx_writes[p] = 1
                /\ nx_read[p] = "none"
                /\ process_regional_nx_map[p] = nx_map[p]
          /\ (nx_after_success[p] /\ nx_branch[p] # "none") => nx_branch[p] = "load"
    /\ (\E p \in Procs : process_regional_nx_map[p] # None) => cache_file # "missing"

\* C10's case: one call built and wrote the file, a call begun after it
\* returned loaded the file.
C10_Witness ==
    \E p, q \in Procs :
        /\ nx_branch[p] = "build" /\ process_regional_nx_map[p] # None
        /\ nx_after_success[q] /\ nx_branch[q] = "load"
        /\ process_regional_nx_map[q] # None

\* C6: per-feature failure isolation.  No link matcher ends by raising the
\* error of one row: match_links_from_shapefile does not raise for a row whose
\* process_trace result is unmatched, and conflate_with_osm raises only when
\* its setup fails, not when the task of a row raised.
C6_FeatureFailureIsolated ==
    /\ link_pc = "ml_raised" => link_error # "KeyError"
    /\ link_pc = "co_raised" => link_error = "NetworkUnavailable"

\* the positions of the edges of edges_df at the least distance from g
NearestEdges(g, edges_df) ==
    {i \in 1..Len(edges_df) :
        \A j \in 1..Len(edges_df) :
            Distance2(edges_df[i].geometry, g) <= Distance2(edges_df[j].geometry, g)}

\* g lies on an edge of edges_df or within one grid unit of one
OnOrClose(g, edges_df) ==
    \E i \in 1..Len(edges_df) : Distance2(edges_df[i].geometry, g) <= 1

\* C11: nearest-edge conflation.  The task of every feature that lies on or
\* close to an edge of the filtered network returns a result, and the edge in it
\* is an edge at the least distance from the feature among all edges of the
\* filtered network.
C11_NearestEdge ==
    \A f \in DOMAIN co_future :
        (/\ co_future[f].state \in {"dict", "None"}
         /\ OnOrClose(features[f].geometry, FilteredEdges(osm_filter)))
        => /\ co_future[f].state = "dict"
           /\ \E i \in NearestEdges(features[f].geometry, FilteredEdges(osm_filter)) :
                 FilteredEdges(osm_filter)[i] = co_future[f].row

\* some edge of edges_df has a bounding box that intersects the one of g
HasCandidate(g, edges_df) ==
    \E i \in 1..Len(edges_df) :
        BoxesIntersect(Bounds(edges_df[i].geometry), Bounds(g))

\* the rows with a geometry whose future has been collected and that have a
\* candidate edge
CollectedWithCandidate ==
    {f \in DOMAIN co_future :
        /\ co_future[f].collected
        /\ features[f].geometry # NullGeom
        /\ HasCandidate(features[f].geometry, FilteredEdges(osm_filter))}

\* C12: in conflate_with_osm the task of a feature without a candidate edge
\* returns None and raises nothing, the task of a feature with a candidate
\* returns one result, and whatever the order of collection the number of
\* results is the number of collected features that have a candidate; at the
\* return that is the number of features with a candidate.
C12_NoCandidateDropped ==
    /\ \A f \in DOMAIN co_future :
          (features[f].geometry # NullGeom /\ co_future[f].state # "pending") =>
              co_future[f].state =
                  IF HasCandidate(features[f].geometry, FilteredEdges(osm_filter))
                  THEN "dict" ELSE "None"
    /\ link_pc \in {"co_collect", "co_returned", "co_raised"} =>
          Len(link_results) = Cardinality(CollectedWithCandidate)
    /\ link_pc = "co_returned" =>
          \A f \in DOMAIN co_future : co_future[f].collected

\* C12's case: conflate_with_osm returned for a feature without a candidate
\* and a feature with one, with one result.
C12_Witness ==
    /\ link_pc = "co_returned"
    /\ Len(link_results) = 1
    /\ \E f \in DOMAIN co_future :
          ~HasCandidate(features[f].geometry, FilteredEdges(osm_filter))
    /\ \E f \in DOMAIN co_future :
          HasCandidate(features[f].geometry, FilteredEdges(osm_filter))

\* the keys under which a result could carry the identifier of its feature
FeatureIdKeys == {"id", "index", "original_id", "feature_id"}

\* C13: every result of conflate_with_osm carries the identifier of the
\* feature it was computed for.
C13_ResultCarriesFeatureId ==
    \A f \in DOMAIN co_future :
        co_future[f].state = "dict" =>
            \E k \in FeatureIdKeys \cap DOMAIN co_future[f].row :
                co_future[f].row[k] = f

\* C15: a trace whose match holds a null road is returned unmatched without
\* the tables, its table building is never run, and a result has a table only
\* when every match of its trace has a road.
C15_NullRoadSkipsTables ==
    /\ \A d \in AllResults :
          kind[d["trip_id"]] = "null_road" => UnmatchedShape(d)
    /\ \A d \in AllResults :
          (Has(d, "matched_gdf") \/ Has(d, "matched_path_gdf")) =>
              kind[d["trip_id"]] = "ok"
    /\ \A t \in Trips :
          (future[t].state = "exception" /\ future[t].exc = "tables") =>
              kind[t] = "err_tables"
    /\ error = "tables" => \E t \in Trips : kind[t] = "err_tables"

\* C15's case: a process with a network ran match_trace on a trace, found a
\* null road and returned the trace unmatched.
C15_Witness ==
    \E d \in AllResults, p \in Procs :
        /\ kind[d["trip_id"]] = "null_road"
        /\ num_trips_matched[p] > 0
        /\ IsUnmatched(d)
        /\ ~Has(d, "matched_path_gdf")

\* C16: at most one process ever opens the regional network cache file for
\* writing.
C16_SingleCacheWriter ==
    Cardinality({p \in Procs : nx_writes[p] > 0}) <= 1

\* a step in which some process runs process_trace on a trace of the batch
ProcessTraceStep ==
    \E t \in Trips : kind[t] = "unknown" /\ kind'[t] # "unknown"

\* C17: a call of process_trace leaves the process's regional network as it
\* was, calls nx_map_from_geojson neither to build nor to load, writes no cache
\* and in shared-regional mode asks the external source for nothing; the global
\* of a process is always None or the network nx_map_from_geojson returned to
\* it at startup.
C17_RegionalNetworkUntouched ==
    /\ [][ProcessTraceStep =>
            /\ process_regional_nx_map' = process_regional_nx_map
            /\ nx_map' = nx_map
            /\ nx_calls' = nx_calls
            /\ nx_writes' = nx_writes
            /\ ~download_local_OSM_map => fetches' = fetches]_vars
    /\ [](\A p \in Procs : process_regional_nx_map[p] \in {None, nx_map[p]})

\* C17's case: the calling process built its network, matched every trace of
\* the batch against it and still holds it.
C17_Witness ==
    /\ ~download_local_OSM_map
    /\ processes = 1
    /\ pc = "returned"
    /\ MatchedIds(delivered) = Trips
    /\ process_regional_nx_map[0] # None
    /\ process_regional_nx_map[0] = nx_map[0]

\* the number of calls of process_trace in process p that returned a matched
\* result
ReturnedMatchedBy(p) ==
    IF p = 0
    THEN IF processes = 1
         THEN Cardinality({i \in 1..Len(matched_traces) : IsMatched(matched_traces[i])})
         ELSE 0
    ELSE Cardinality({t \in Trips : /\ future[t].worker = p
                                    /\ future[t].state = "result"
                                    /\ IsMatched(future[t].result)})

\* C18: as long as no call of process_trace has raised, the counter of every
\* process equals the number of its calls that returned a matched result.
C18_CounterCountsMatched ==
    (/\ error \notin ProcessTraceErrors
     /\ \A t \in Trips : future[t].state = "exception" => future[t].exc \notin ProcessTraceErrors)
    => \A p \in Procs : num_trips_matched[p] = ReturnedMatchedBy(p)

\* trip t has a row in the table whose osmid, a scalar or a member of a list,
\* is in the set
Touches(table, t, set) ==
    \E i \in 1..Len(table) :
        /\ table[i].trip_id = t
        /\ IF "list" \in DOMAIN table[i].osmid
           THEN \E j \in 1..Len(table[i].osmid.list) : table[i].osmid.list[j] \in set
           ELSE table[i].osmid.scalar \in set

\* C14: flag_trips_by_osmid returns exactly the trips that have a row whose
\* osmid, or a member of whose osmid list, is in the set, each once, nothing
\* when no trip has such a row, and leaves the caller's table as it was.
C14_FlagByEdgeMembership ==
    /\ [](tab_pc = "flag_done" =>
            /\ Range(flagged_trip_ids) =
                  {t \in Trips : Touches(matched_paths_df, t, osmid_set)}
            /\ \A i, j \in 1..Len(flagged_trip_ids) :
                  i # j => flagged_trip_ids[i] # flagged_trip_ids[j]
            /\ (\A t \in Trips : ~Touches(matched_paths_df, t, osmid_set)) =>
                  flagged_trip_ids = <<>>)
    /\ [][tab_pc = "flag" => matched_paths_df' = matched_paths_df]_vars

\* C14's case: a trip is flagged once although every one of its several rows
\* is in the set, one of them through a later member of a list only.
C14_Witness ==
    /\ tab_pc = "flag_done"
    /\ Len(flagged_trip_ids) = 1
    /\ Len(matched_paths_df) > 1
    /\ \A i \in 1..Len(matched_paths_df) :
          /\ matched_paths_df[i].trip_id = flagged_trip_ids[1]
          /\ Touches(<<matched_paths_df[i]>>, flagged_trip_ids[1], osmid_set)
    /\ \E i \in 1..Len(matched_paths_df) :
          /\ "list" \in DOMAIN matched_paths_df[i].osmid
          /\ Len(matched_paths_df[i].osmid.list) > 1
          /\ matched_paths_df[i].osmid.list[1] \notin osmid_set

\* the positions of the rows of trip t in the concatenated table
RowsOf(t) == {j \in 1..Len(matched_gdf) : matched_gdf[j].trip_id = t}

\* the positions of the dicts that hold the table kind
KeyedDicts == {i \in 1..Len(match_result) : Has(match_result[i], MatchType)}

\* row `out` of the concatenated table is row `in` of a trace's table
SameRow(out, in) ==
    /\ out.trip_id = in.trip_id
    /\ out.osmid \in {in.osmid, [str |-> in.osmid]}

\* C19: the concatenated table holds rows of exactly the traces whose dict has
\* the table kind, and for each of them one row per row of its table, the n-th
\* row of the table carrying sequence number n - 1, in whatever order the dicts
\* arrived.
C19_RownumKeepsOrder ==
    tab_pc = "concat_done" =>
        /\ {matched_gdf[j].trip_id : j \in 1..Len(matched_gdf)} \subseteq
              {match_result[i]["trip_id"] : i \in KeyedDicts}
        /\ \A i \in KeyedDicts :
              LET t == match_result[i]["trip_id"]
                  table == match_result[i][MatchType]
              IN /\ Cardinality(RowsOf(t)) = Len(table)
                 /\ \A n \in 1..Len(table) :
                       \E j \in RowsOf(t) :
                           /\ matched_gdf[j].rownum = n - 1
                           /\ SameRow(matched_gdf[j], table[n])

\* C19's case: the dicts arrived in another order than that of the trip ids,
\* one without the table and one with a table of two different rows.
C19_Witness ==
    /\ tab_pc = "concat_done"
    /\ match_result[1]["trip_id"] > match_result[Len(match_result)]["trip_id"]
    /\ \E i \in 1..Len(match_result) : i \notin KeyedDicts
    /\ \E i \in KeyedDicts :
          /\ Len(match_result[i][MatchType]) > 1
          /\ match_result[i][MatchType][1].osmid # match_result[i][MatchType][Len(match_result[i][MatchType])].osmid
    /\ Len(matched_gdf) > 1

\* C20: every trace create_batch_traces builds has its points in the order of
\* their collect_time, and the list holds one trace for every trip id of the
\* table and no two for the same.
C20_TracesOrderedByTime ==
    tab_pc = "create_done" =>
        /\ \A n \in 1..Len(batch_traces) :
              \A i, j \in 1..Len(batch_traces[n].trace_gdf) :
                  i < j => batch_traces[n].trace_gdf[i].collect_time
                               <= batch_traces[n].trace_gdf[j].collect_time
        /\ {batch_traces[n].trip_id : n \in 1..Len(batch_traces)} =
              {df[i].trip_id : i \in 1..Len(df)}
        /\ \A m, n \in 1..Len(batch_traces) :
              m # n => batch_traces[m].trip_id # batch_traces[n].trip_id

====
